---- MODULE Spec2Model ----
(***************************************************************************)
(* netem_cycle.py: a single-threaded loop that keeps a NetEm impairment on *)
(* one interface except during a daily UTC window.  Time is counted in     *)
(* ticks; Res ticks make one second (datetime carries sub-second time).    *)
(***************************************************************************)
EXTENDS Integers, Sequences, FiniteSets, TLC

\* ------------------------------------------------------------------ bounds
Res == 2
MaxIter == 2
MaxJitter == 1
MaxExt == 1

\* --------------------------------------------------------- program constants
HEALTHY_START_HOUR == 3
HEALTHY_END_HOUR == 4
CHECK_INTERVAL == 30

\* ------------------------------------------------------------ time helpers
SecTicks(s) == s * Res
HourTicks == SecTicks(3600)
DayTicks == 24 * HourTicks

\* datetime(h:m:s + f ticks) on day 0, as ticks since day 0 00:00:00 UTC
At(h, m, s, f) == h * HourTicks + SecTicks(60 * m + s) + f

\* datetime.hour
Hour(t) == (t % DayTicks) \div HourTicks

\* datetime.replace(hour=h, minute=0, second=0, microsecond=0): same date
ReplaceHour(t, h) == (t \div DayTicks) * DayTicks + h * HourTicks

\* timedelta(days=1)
OneDay == DayTicks

Min(a, b) == IF a <= b THEN a ELSE b

\* ------------------------------------------------------------------- state
VARIABLES
    mode,            \* "main": the scheduler loop; "calls": a two-call sequence
    script,          \* "calls" mode: the functions still to be called
    pc,              \* control position
    clock,           \* wall-clock UTC time
    netem,           \* the interface carries a netem qdisc
    fn,              \* the function being run: "heal" or "impair"
    now,             \* main(): now
    observed,        \* result of has_netem() in the current call
    probe_rc,        \* how the query command of the current call ended
    cmd_rc,          \* how the apply/remove command of the current call ended
    events,          \* commands launched: per iteration (main) or in total (calls)
    stderr_msg,      \* error line printed by the current call
    next_boundary,   \* main(): next_transition / next_start
    delta,           \* main(): delta
    sleep_duration,  \* argument of time.sleep
    iter,            \* iterations started
    last,            \* summary of the previous iteration
    faults,          \* probes/commands that failed since start
    ext              \* changes made to the interface by other actors

vars == <<mode, script, pc, clock, netem, fn, now, observed, probe_rc, cmd_rc,
          events, stderr_msg, next_boundary, delta, sleep_duration, iter, last,
          faults, ext>>

None == "none"

\* outcomes of a subprocess: exit 0, CalledProcessError(returncode), OSError
ProbeOutcomes == {"ok", "rc1", "oserror"}
CmdOutcomes == {"ok", "rc2", "rc1", "oserror"}

\* ------------------------------------------------------------ pure functions
in_healthy_window_closed(now_utc) ==
    HEALTHY_START_HOUR <= Hour(now_utc) /\ Hour(now_utc) <= HEALTHY_END_HOUR

in_healthy_window(now_utc) ==
    HEALTHY_START_HOUR <= Hour(now_utc) /\ Hour(now_utc) < HEALTHY_END_HOUR

Desired(t) == IF in_healthy_window(t) THEN "Healthy" ELSE "Impaired"

\* ------------------------------------------------------------ initial states
StartTimes ==
    { At(h, 0, 0, 0) : h \in 0..23 }
    \cup { At(h, 59, 59, Res - 1) : h \in 0..23 }
    \cup { At(2, 10, 0, 0), At(2, 59, 31, 0), At(2, 59, 59, 1),
           At(3, 0, 0, 1), At(3, 10, 0, 0), At(3, 59, 30, 0),
           At(4, 0, 0, 1), At(23, 50, 0, 0) }

NoCall == [fn |-> None, now |-> -1, observed |-> FALSE, probe_rc |-> None,
           cmd_rc |-> None, events |-> << >>, stderr_msg |-> None,
           sleep |-> 0, netem |-> FALSE]

InitCommon ==
    /\ clock \in StartTimes
    /\ netem \in BOOLEAN
    /\ fn = None
    /\ now = -1
    /\ observed = FALSE
    /\ probe_rc = None
    /\ cmd_rc = None
    /\ events = << >>
    /\ stderr_msg = None
    /\ next_boundary = -1
    /\ delta = 0
    /\ sleep_duration = 0
    /\ iter = 0
    /\ last = NoCall
    /\ faults = 0
    /\ ext = 0

Init ==
    /\ mode = "main"
    /\ script = << >>
    /\ pc = "loop"
    /\ InitCommon

InitCalls ==
    /\ mode = "calls"
    /\ script \in { <<f, g>> : f \in {"heal", "impair"}, g \in {"heal", "impair"} }
    /\ pc = "call"
    /\ InitCommon
    /\ clock = At(HEALTHY_START_HOUR, 0, 0, 0)

\* ------------------------------------------------------------------ helpers
Live == pc \notin {"exited", "crashed"}

Failed(o) == IF o = "ok" THEN 0 ELSE 1

Summary == [fn |-> fn, now |-> now, observed |-> observed, probe_rc |-> probe_rc,
            cmd_rc |-> cmd_rc, events |-> events, stderr_msg |-> stderr_msg,
            sleep |-> sleep_duration, netem |-> netem]

\* the subprocess.run / check_output call ended by raising something other
\* than CalledProcessError: nothing in the program catches it
Uncaught(o) == o = "oserror"

\* ------------------------------------------------------------------ has_netem
\* value returned by has_netem() when the query ended with outcome o (not
\* "oserror") on an interface whose netem presence is `actual`
has_netem_trusts_own_apply(o, actual) ==
    IF last.fn = "impair" /\ last.cmd_rc = "ok"
        THEN TRUE
        ELSE IF o = "ok" THEN actual ELSE FALSE

has_netem_negated(o, actual) == IF o = "ok" THEN ~actual ELSE FALSE

has_netem_result(o, actual) == IF o = "ok" THEN actual ELSE FALSE

has_netem(o) ==
    /\ pc = "probe"
    /\ probe_rc' = o
    /\ events' = Append(events, "query")
    /\ faults' = faults + Failed(o)
    /\ IF Uncaught(o)
         THEN pc' = "crashed" /\ UNCHANGED observed
         ELSE pc' = "act" /\ observed' = has_netem_result(o, netem)
    /\ UNCHANGED <<mode, script, clock, netem, fn, now, cmd_rc, stderr_msg,
                   next_boundary, delta, sleep_duration, iter, last, ext>>

\* ------------------------------------------------------------------- impair
\* effect of the tc command on the interface
AfterApply(o, actual) == IF o = "ok" THEN TRUE ELSE actual

AfterRemove(o, actual) == IF o = "ok" THEN FALSE ELSE actual

impair_guard_inverted(seen) == ~seen

impair_returns_early(seen) == seen

impair(o) ==
    /\ pc = "act"
    /\ fn = "impair"
    /\ IF impair_returns_early(observed)
         THEN /\ pc' = "returned"
              /\ UNCHANGED <<netem, cmd_rc, events, stderr_msg, faults>>
         ELSE /\ events' = Append(events, "apply")
              /\ cmd_rc' = o
              /\ netem' = AfterApply(o, netem)
              /\ faults' = faults + Failed(o)
              /\ stderr_msg' = IF o \in {"rc1", "rc2"}
                                 THEN "failed to apply impairment" ELSE None
              /\ pc' = IF Uncaught(o) THEN "crashed" ELSE "returned"
    /\ UNCHANGED <<mode, script, clock, fn, now, observed, probe_rc,
                   next_boundary, delta, sleep_duration, iter, last, ext>>

\* --------------------------------------------------------------------- heal
heal_reports_every_failure(o) ==
    /\ pc = "act"
    /\ fn = "heal"
    /\ IF ~observed
         THEN /\ pc' = "returned"
              /\ UNCHANGED <<netem, cmd_rc, events, stderr_msg, faults>>
         ELSE /\ events' = Append(events, "remove")
              /\ cmd_rc' = o
              /\ netem' = AfterRemove(o, netem)
              /\ faults' = faults + Failed(o)
              /\ stderr_msg' = IF o \in {"rc1", "rc2"}
                                 THEN "failed to remove impairment" ELSE None
              /\ pc' = IF Uncaught(o) THEN "crashed" ELSE "returned"
    /\ UNCHANGED <<mode, script, clock, fn, now, observed, probe_rc,
                   next_boundary, delta, sleep_duration, iter, last, ext>>

heal_guard_inverted(seen) == seen

heal_returns_early(seen) == ~seen

heal(o) ==
    /\ pc = "act"
    /\ fn = "heal"
    /\ IF heal_returns_early(observed)
         THEN /\ pc' = "returned"
              /\ UNCHANGED <<netem, cmd_rc, events, stderr_msg, faults>>
         ELSE /\ events' = Append(events, "remove")
              /\ cmd_rc' = o
              /\ netem' = AfterRemove(o, netem)
              /\ faults' = faults + Failed(o)
              /\ stderr_msg' = IF o = "rc1"
                                 THEN "failed to remove impairment" ELSE None
              /\ pc' = IF Uncaught(o) THEN "crashed" ELSE "returned"
    /\ UNCHANGED <<mode, script, clock, fn, now, observed, probe_rc,
                   next_boundary, delta, sleep_duration, iter, last, ext>>

\* --------------------------------------------------------------------- main
main_loop_remembering ==
    /\ mode = "main"
    /\ pc = "loop"
    /\ iter < MaxIter
    /\ iter' = iter + 1
    /\ now' = clock
    /\ fn' = IF iter > 0 THEN fn
             ELSE IF in_healthy_window(clock) THEN "heal" ELSE "impair"
    /\ pc' = "probe"
    /\ observed' = FALSE
    /\ probe_rc' = None
    /\ cmd_rc' = None
    /\ events' = << >>
    /\ stderr_msg' = None
    /\ UNCHANGED <<mode, script, clock, netem, next_boundary, delta,
                   sleep_duration, last, faults, ext>>

\* while True: now = datetime.now(timezone.utc); if in_healthy_window(now): ...
main_loop ==
    /\ mode = "main"
    /\ pc = "loop"
    /\ iter < MaxIter
    /\ iter' = iter + 1
    /\ now' = clock
    /\ fn' = IF in_healthy_window(clock) THEN "heal" ELSE "impair"
    /\ pc' = "probe"
    /\ observed' = FALSE
    /\ probe_rc' = None
    /\ cmd_rc' = None
    /\ events' = << >>
    /\ stderr_msg' = None
    /\ UNCHANGED <<mode, script, clock, netem, next_boundary, delta,
                   sleep_duration, last, faults, ext>>

\* Healthy branch: next_transition, and the argument of time.sleep
healthy_next_transition(n) == ReplaceHour(n, HEALTHY_END_HOUR)

healthy_sleep_capped(n) ==
    IF healthy_next_transition(n) <= n
        THEN SecTicks(CHECK_INTERVAL)
        ELSE Min((healthy_next_transition(n) - n) + SecTicks(1),
                 SecTicks(CHECK_INTERVAL))

healthy_sleep_no_epsilon(n) ==
    IF healthy_next_transition(n) <= n
        THEN SecTicks(CHECK_INTERVAL)
        ELSE healthy_next_transition(n) - n

healthy_sleep(n) ==
    IF healthy_next_transition(n) <= n
        THEN SecTicks(CHECK_INTERVAL)
        ELSE (healthy_next_transition(n) - n) + SecTicks(1)

main_healthy ==
    /\ mode = "main"
    /\ pc = "returned"
    /\ fn = "heal"
    /\ next_boundary' = healthy_next_transition(now)
    /\ delta' = IF healthy_next_transition(now) <= now
                  THEN delta ELSE healthy_next_transition(now) - now
    /\ sleep_duration' = healthy_sleep(now)
    /\ pc' = "sleeping"
    /\ UNCHANGED <<mode, script, clock, netem, fn, now, observed, probe_rc,
                   cmd_rc, events, stderr_msg, iter, last, faults, ext>>

\* Impaired branch: next_start (moved to tomorrow when not in the future)
impaired_next_start_today(n) == ReplaceHour(n, HEALTHY_START_HOUR)

impaired_next_start(n) ==
    IF ReplaceHour(n, HEALTHY_START_HOUR) <= n
        THEN ReplaceHour(n, HEALTHY_START_HOUR) + OneDay
        ELSE ReplaceHour(n, HEALTHY_START_HOUR)

impaired_sleep_uncapped(n) == impaired_next_start(n) - n

impaired_sleep(n) == Min(impaired_next_start(n) - n, SecTicks(CHECK_INTERVAL))

main_impaired ==
    /\ mode = "main"
    /\ pc = "returned"
    /\ fn = "impair"
    /\ next_boundary' = impaired_next_start(now)
    /\ delta' = impaired_next_start(now) - now
    /\ sleep_duration' = impaired_sleep(now)
    /\ pc' = "sleeping"
    /\ UNCHANGED <<mode, script, clock, netem, fn, now, observed, probe_rc,
                   cmd_rc, events, stderr_msg, iter, last, faults, ext>>

\* time.sleep returns: at least the requested time has passed since `now`
sleep_returns(j) ==
    /\ mode = "main"
    /\ pc = "sleeping"
    /\ clock' = now + sleep_duration + j
    /\ last' = Summary
    /\ pc' = "loop"
    /\ UNCHANGED <<mode, script, netem, fn, now, observed, probe_rc, cmd_rc,
                   events, stderr_msg, next_boundary, delta, sleep_duration,
                   iter, faults, ext>>

sigint_only_while_sleeping ==
    /\ mode = "main"
    /\ pc = "sleeping"
    /\ pc' = "exited"
    /\ UNCHANGED <<mode, script, clock, netem, fn, now, observed, probe_rc,
                   cmd_rc, events, stderr_msg, next_boundary, delta,
                   sleep_duration, iter, last, faults, ext>>

\* signal.signal(SIGINT, lambda *_: sys.exit(0))
sigint ==
    /\ mode = "main"
    /\ Live
    /\ pc' = "exited"
    /\ UNCHANGED <<mode, script, clock, netem, fn, now, observed, probe_rc,
                   cmd_rc, events, stderr_msg, next_boundary, delta,
                   sleep_duration, iter, last, faults, ext>>

\* another actor adds or deletes the qdisc
external ==
    /\ mode = "main"
    /\ Live
    /\ ext < MaxExt
    /\ ext' = ext + 1
    /\ netem' = ~netem
    /\ UNCHANGED <<mode, script, pc, clock, fn, now, observed, probe_rc,
                   cmd_rc, events, stderr_msg, next_boundary, delta,
                   sleep_duration, iter, last, faults>>

\* a caller runs the next function of a fixed sequence, back to back
call ==
    /\ mode = "calls"
    /\ pc \in {"call", "returned"}
    /\ script # << >>
    /\ fn' = Head(script)
    /\ script' = Tail(script)
    /\ last' = IF pc = "returned" THEN Summary ELSE last
    /\ iter' = iter + 1
    /\ pc' = "probe"
    /\ observed' = FALSE
    /\ probe_rc' = None
    /\ cmd_rc' = None
    /\ stderr_msg' = None
    /\ UNCHANGED <<mode, clock, netem, now, events, next_boundary, delta,
                   sleep_duration, faults, ext>>

\* ------------------------------------------------------------ specifications
Next ==
    \/ main_loop
    \/ \E o \in ProbeOutcomes : has_netem(o)
    \/ \E o \in CmdOutcomes : impair(o)
    \/ \E o \in CmdOutcomes : heal(o)
    \/ main_healthy
    \/ main_impaired
    \/ \E j \in 0..MaxJitter : sleep_returns(j)
    \/ sigint
    \/ external

Spec == Init /\ [][Next]_vars

NextCalls ==
    \/ call
    \/ \E o \in ProbeOutcomes : has_netem(o)
    \/ \E o \in CmdOutcomes : impair(o)
    \/ \E o \in CmdOutcomes : heal(o)

SpecCalls == InitCalls /\ [][NextCalls]_vars

\* ================================================================== claims
\* launches of a command among the recorded events
Count(seq, c) == Cardinality({ i \in 1..Len(seq) : seq[i] = c })

\* the reconciliation of the current iteration of the loop has returned
Reconciled == mode = "main" /\ pc \in {"returned", "sleeping"}

\* time of day of t, and the window as a range of times of day
TimeOfDay(t) == t % DayTicks
WindowOpens == HEALTHY_START_HOUR * HourTicks
WindowCloses == HEALTHY_END_HOUR * HourTicks

\* C1: the Healthy branch is taken exactly when the time of day of `now` lies
\* in [startHour:00:00, endHour:00:00), whatever its minutes and seconds:
\* Healthy at startHour:00:00 sharp, Impaired from endHour:00:00 on.
C1_HealthyIffHourInWindow ==
    now >= 0 =>
        /\ (fn = "heal") <=>
              (WindowOpens <= TimeOfDay(now) /\ TimeOfDay(now) < WindowCloses)
        /\ (fn = "impair") <=> ~in_healthy_window(now)
        /\ TimeOfDay(now) = At(HEALTHY_START_HOUR, 0, 0, 0) => fn = "heal"
        /\ Hour(now) = HEALTHY_END_HOUR => fn = "impair"

C1_Witness ==
    /\ last.fn = "heal"
    /\ TimeOfDay(last.now) = At(HEALTHY_START_HOUR, 0, 0, 0)
    /\ fn = "impair"
    /\ TimeOfDay(now) = At(HEALTHY_END_HOUR, 0, 1, 0)

\* C2: with no failed probe or command and no other actor, once an iteration
\* inside the window has reconciled the interface carries no netem for the
\* rest of that window, and after an iteration outside the window it does.
C2_CleanInWindowImpairedOutside ==
    (mode = "main" /\ faults = 0 /\ ext = 0) =>
        /\ (Reconciled /\ fn = "heal") => ~netem
        /\ (last.fn = "heal" /\ clock < ReplaceHour(last.now, HEALTHY_END_HOUR))
              => ~netem
        /\ (Reconciled /\ fn = "impair") => netem

C2_Witness ==
    /\ faults = 0 /\ ext = 0
    /\ pc = "sleeping" /\ fn = "impair" /\ netem
    /\ last.fn = "heal" /\ last.events = <<"query", "remove">> /\ ~last.netem

\* C3: an Impaired iteration whose probe reported no netem launches exactly
\* one apply and no remove, whatever the outcome of that apply.
C3_OneApplyWhenNotImpaired ==
    (mode = "main" /\ fn = "impair" /\ ~observed
       /\ (Reconciled \/ (pc = "crashed" /\ ~Uncaught(probe_rc))))
        => events = <<"query", "apply">>

C3_Witness ==
    /\ pc = "sleeping" /\ fn = "impair" /\ ~observed
    /\ cmd_rc = "rc1" /\ events = <<"query", "apply">>

\* C4: an Impaired iteration whose probe reported netem launches no command,
\* and impair() returns without changing the interface.
C4_NoCommandWhenImpaired ==
    /\ []((Reconciled /\ fn = "impair" /\ observed) => events = <<"query">>)
    /\ [][(pc = "act" /\ fn = "impair" /\ observed /\ pc' # "act" /\ pc' # "exited")
             => (pc' = "returned" /\ netem' = netem /\ events' = events
                 /\ cmd_rc' = None)]_vars

C4_Witness ==
    /\ pc = "sleeping" /\ fn = "impair" /\ observed /\ netem
    /\ events = <<"query">>

\* the two calls of the sequence have both ended (by return or by raising)
BothCallsOver == mode = "calls" /\ iter = 2 /\ pc \in {"returned", "crashed"}

\* C5 as stated: two calls of the same function launch at most one command
\* in total, whatever the outcome of the first command.
C5_AtMostOneCommandAnyOutcome ==
    (BothCallsOver /\ last.fn = fn) =>
        /\ Count(events, "remove") <= 1
        /\ Count(events, "apply") <= 1

\* C5 amended: two calls of the same function launch at most one command in
\* total when the first call's command, if launched, succeeded and the query
\* of the second call did not fail.
C5_AtMostOneCommandAfterSuccess ==
    (BothCallsOver /\ last.fn = fn /\ last.cmd_rc \in {None, "ok"}
       /\ probe_rc = "ok") =>
        /\ Count(events, "remove") <= 1
        /\ Count(events, "apply") <= 1

C5_Witness ==
    /\ BothCallsOver /\ last.fn = fn /\ pc = "returned"
    /\ last.cmd_rc = "ok" /\ probe_rc = "ok"
    /\ Count(events, "query") = 2
    /\ Count(events, "remove") + Count(events, "apply") = 1

\* time from t to the next instant whose time of day is startHour:00:00,
\* today's when still ahead of t and tomorrow's otherwise
TimeToWindowOpening(t) ==
    IF TimeOfDay(t) < WindowOpens
        THEN WindowOpens - TimeOfDay(t)
        ELSE (DayTicks - TimeOfDay(t)) + WindowOpens

\* C6: an Impaired iteration sleeps min(time to the next window opening, poll
\* interval): never longer than either; 29 s at 02:59:31.
C6_ImpairedSleepIsCappedDistance ==
    (mode = "main" /\ pc = "sleeping" /\ fn = "impair") =>
        /\ sleep_duration =
              Min(TimeToWindowOpening(now), SecTicks(CHECK_INTERVAL))
        /\ sleep_duration <= SecTicks(CHECK_INTERVAL)
        /\ sleep_duration <= TimeToWindowOpening(now)
        /\ now + delta = next_boundary
        /\ TimeOfDay(next_boundary) = WindowOpens
        /\ TimeOfDay(now) = At(2, 10, 0, 0) =>
              sleep_duration <= Min(SecTicks(50 * 60), SecTicks(CHECK_INTERVAL))
        /\ TimeOfDay(now) = At(2, 59, 31, 0) => sleep_duration = SecTicks(29)

C6_Witness ==
    /\ pc = "sleeping" /\ fn = "impair"
    /\ TimeOfDay(now) = At(2, 59, 31, 0)
    /\ sleep_duration = SecTicks(29)

\* the endHour:00:00 instant of the day of t
WindowClosingOfDay(t) == (t - TimeOfDay(t)) + WindowCloses

\* C7: a Healthy iteration's wake-up target now + sleep is one second past
\* the window closing of the same day, never before it; from 03:00:00 the
\* sleep is 3601 s, and the iteration that follows reads hour = endHour and
\* is Impaired.
C7_HealthyWakesJustPastClosing ==
    /\ (mode = "main" /\ pc = "sleeping" /\ fn = "heal") =>
          /\ now + sleep_duration >= WindowClosingOfDay(now)
          /\ now + sleep_duration = WindowClosingOfDay(now) + SecTicks(1)
          /\ TimeOfDay(now) = At(HEALTHY_START_HOUR, 0, 0, 0) =>
                sleep_duration = SecTicks(3601)
    /\ (mode = "main" /\ last.fn = "heal") =>
          /\ clock >= WindowClosingOfDay(last.now)
          /\ Hour(clock) = HEALTHY_END_HOUR
          /\ now # last.now => (Hour(now) = HEALTHY_END_HOUR /\ fn = "impair")

C7_Witness ==
    /\ last.fn = "heal"
    /\ TimeOfDay(last.now) = At(HEALTHY_START_HOUR, 0, 0, 0)
    /\ last.sleep = SecTicks(3601)
    /\ pc = "probe" /\ fn = "impair" /\ Hour(now) = HEALTHY_END_HOUR

\* the iteration that read 23:50:00 has computed its sleep
At2350 == mode = "main" /\ pc = "sleeping" /\ TimeOfDay(now) = At(23, 50, 0, 0)

\* C8 as stated: at 23:50 the state is Impaired, the boundary is tomorrow
\* 03:00, 27300 s away, and the sleep is min(27300 s, poll interval).
C8_Boundary27300 ==
    At2350 =>
        /\ fn = "impair"
        /\ next_boundary = ReplaceHour(now, HEALTHY_START_HOUR) + OneDay
        /\ delta = SecTicks(27300)
        /\ sleep_duration = Min(SecTicks(27300), SecTicks(CHECK_INTERVAL))

\* C8 amended: at 23:50 the state is Impaired, the boundary is tomorrow
\* 03:00, 11400 s away, and the sleep is min(11400 s, poll interval).
C8_Boundary11400 ==
    At2350 =>
        /\ fn = "impair"
        /\ next_boundary = ReplaceHour(now, HEALTHY_START_HOUR) + OneDay
        /\ delta = SecTicks(11400)
        /\ sleep_duration = Min(SecTicks(11400), SecTicks(CHECK_INTERVAL))

C8_Witness ==
    /\ At2350 /\ fn = "impair" /\ delta = SecTicks(11400)
    /\ sleep_duration = SecTicks(CHECK_INTERVAL)

\* has_netem() was left by an exception instead of a return value
ProbeRaised == pc = "crashed" /\ Uncaught(probe_rc)

\* C9: whenever the query fails has_netem() returns false, so that heal()
\* launches no remove and impair() launches one apply, netem present or not.
C9_ProbeFailureReturnsFalse ==
    (mode = "main" /\ probe_rc \notin {None, "ok"}) =>
        /\ ~ProbeRaised
        /\ ~observed
        /\ (Reconciled /\ fn = "heal") => events = <<"query">>
        /\ (Reconciled /\ fn = "impair") => events = <<"query", "apply">>

\* C10: no failure of a probe, apply or remove ends the process: it is
\* never left by an exception.
C10_NoFailureIsFatal == pc # "crashed"

\* C11: the interrupt can arrive at every point of the running loop; the
\* step it causes ends the process with sys.exit(0) without launching any
\* command or touching the interface, and nothing happens after it.
C11_InterruptStopsWithoutAction ==
    /\ []((mode = "main" /\ Live) => ENABLED sigint)
    /\ [][(pc # "exited" /\ pc' = "exited")
             => (netem' = netem /\ events' = events /\ faults' = faults)]_vars
    /\ [][pc = "exited" => UNCHANGED vars]_vars

C11_Witness ==
    /\ pc = "exited" /\ fn = "heal" /\ observed /\ netem
    /\ events = <<"query">> /\ cmd_rc = None

\* the apply of the previous iteration ended in a failure
LastApplyFailed ==
    /\ mode = "main" /\ last.fn = "impair"
    /\ last.events = <<"query", "apply">> /\ last.cmd_rc \notin {None, "ok"}

\* C12: after a failed apply the process keeps running, the iteration
\* sleeps at most the poll interval, and the iteration that follows, when
\* still outside the window with a probe reporting no netem, launches an
\* apply again.
C12_FailedApplyRetriedWithinPoll ==
    /\ (mode = "main" /\ fn = "impair" /\ Len(events) = 2
          /\ cmd_rc \notin {None, "ok"}) =>
          /\ pc # "crashed"
          /\ pc = "sleeping" => sleep_duration <= SecTicks(CHECK_INTERVAL)
    /\ LastApplyFailed =>
          /\ last.sleep <= SecTicks(CHECK_INTERVAL)
          /\ (Reconciled /\ now # last.now /\ fn = "impair" /\ ~observed)
                => events = <<"query", "apply">>

\* C12 for an apply that was launched and exited with a non-zero status (the
\* part of C12 the code does satisfy)
C12_NonZeroExitRetriedWithinPoll ==
    /\ (mode = "main" /\ fn = "impair" /\ Len(events) = 2
          /\ cmd_rc \in {"rc1", "rc2"}) =>
          /\ pc # "crashed"
          /\ pc = "sleeping" => sleep_duration <= SecTicks(CHECK_INTERVAL)
    /\ LastApplyFailed =>
          /\ last.sleep <= SecTicks(CHECK_INTERVAL)
          /\ (Reconciled /\ now # last.now /\ fn = "impair" /\ ~observed)
                => events = <<"query", "apply">>

\* C13: a Healthy iteration launches nothing after a probe that reported no
\* netem, and exactly one remove and no apply after one that reported netem.
C13_HealthyReconciliation ==
    (mode = "main" /\ fn = "heal"
       /\ (Reconciled \/ (pc = "crashed" /\ ~Uncaught(probe_rc)))) =>
        /\ ~observed => events = <<"query">>
        /\ observed => events = <<"query", "remove">>

C13_Witness ==
    /\ pc = "sleeping" /\ fn = "heal" /\ observed
    /\ TimeOfDay(now) = At(HEALTHY_START_HOUR, 0, 0, 0)
    /\ events = <<"query", "remove">> /\ cmd_rc = "ok" /\ ~netem

\* the remove of the current Healthy iteration was launched and has ended
RemoveEnded ==
    /\ mode = "main" /\ fn = "heal" /\ events = <<"query", "remove">>
    /\ cmd_rc # None

\* C14: a remove that exits with status 2 prints no error, one that exits
\* with another non-zero status prints one; either way heal() returns and the
\* iteration sleeps to one second past the window closing, as after a remove
\* that succeeded.
C14_RemoveExitStatus ==
    RemoveEnded =>
        /\ cmd_rc = "rc2" => stderr_msg = None
        /\ cmd_rc = "rc1" => stderr_msg = "failed to remove impairment"
        /\ cmd_rc = "ok" => stderr_msg = None
        /\ cmd_rc \in {"rc1", "rc2"} => pc # "crashed"
        /\ (cmd_rc \in {"ok", "rc1", "rc2"} /\ pc = "sleeping") =>
              sleep_duration = (WindowClosingOfDay(now) - now) + SecTicks(1)

C14_Witness ==
    /\ RemoveEnded /\ pc = "sleeping" /\ cmd_rc = "rc2" /\ stderr_msg = None
    /\ sleep_duration = (WindowClosingOfDay(now) - now) + SecTicks(1)

\* C15: once a Healthy iteration has reconciled, nothing is launched and no
\* iteration starts before the window closing of that day, whatever the
\* remove did; netem left behind by a remove that failed stays until then.
C15_NothingUntilWindowCloses ==
    /\ [][(mode = "main" /\ fn = "heal" /\ pc \in {"returned", "sleeping", "loop"}
            /\ (events' # events \/ pc' = "probe"))
             => clock >= WindowClosingOfDay(now)]_vars
    /\ []((mode = "main" /\ ext = 0 /\ fn = "heal" /\ cmd_rc = "rc1"
            /\ pc \in {"returned", "sleeping", "loop"}) => netem)

C15_Witness ==
    /\ last.fn = "heal" /\ last.cmd_rc = "rc1" /\ last.netem /\ ext = 0
    /\ pc = "probe" /\ now >= WindowClosingOfDay(last.now)

\* what an iteration launches after its probe, and what it sleeps, as
\* functions of the time it read and of the probe result alone
InWindow(t) == WindowOpens <= TimeOfDay(t) /\ TimeOfDay(t) < WindowCloses

CommandFor(t, seen) ==
    IF InWindow(t)
        THEN (IF seen THEN <<"remove">> ELSE << >>)
        ELSE (IF seen THEN << >> ELSE <<"apply">>)

SleepFor(t) ==
    IF InWindow(t)
        THEN (WindowClosingOfDay(t) - t) + SecTicks(1)
        ELSE Min(TimeToWindowOpening(t), SecTicks(CHECK_INTERVAL))

\* C16: in the first iteration of a process and in every later one alike,
\* the command launched is a function of (now, probe result) and the sleep is
\* a function of now: nothing remembered from earlier iterations enters.
C16_IterationDependsOnClockAndProbeOnly ==
    /\ Reconciled => events = <<"query">> \o CommandFor(now, observed)
    /\ (mode = "main" /\ pc = "sleeping") => sleep_duration = SleepFor(now)
    /\ (mode = "main" /\ last.fn # None) =>
          /\ last.events = <<"query">> \o CommandFor(last.now, last.observed)
          /\ last.sleep = SleepFor(last.now)

C16_Witness ==
    /\ iter = 2 /\ pc = "sleeping" /\ fn = "impair" /\ ~observed
    /\ events = <<"query", "apply">>
    /\ last.fn = "impair" /\ last.events = <<"query", "apply">>
    /\ last.cmd_rc = "ok" /\ ext = 1

\* the previous iteration was Impaired, had netem on the interface (seen
\* by its probe or put there by its apply) and another actor, interfering
\* this once only, removed it before the sleep of that iteration was over
RemovedDuringLastImpaired ==
    /\ mode = "main" /\ ext = 1
    /\ last.fn = "impair" /\ ~last.netem
    /\ (last.observed \/ last.cmd_rc = "ok")

\* the current iteration has got past its probe and its command, if any
PastCommand == Reconciled \/ (pc = "crashed" /\ ~Uncaught(probe_rc))

\* C17: when another actor removes netem during an Impaired iteration, that
\* iteration sleeps at most the poll interval and the next one is Healthy or
\* launches an apply; a probe of an interface without netem never returns
\* true, whatever the loop applied before, and impair() then applies.
C17_ExternalRemovalCorrected ==
    /\ [](RemovedDuringLastImpaired =>
            /\ last.sleep <= SecTicks(CHECK_INTERVAL)
            /\ (now # last.now /\ PastCommand) =>
                  (InWindow(now) \/ events = <<"query", "apply">>))
    /\ [][(mode = "main" /\ pc = "probe" /\ ~netem /\ pc' = "act")
             => ~observed']_vars
    /\ [][(mode = "main" /\ pc = "act" /\ fn = "impair" /\ ~observed
            /\ pc' \in {"returned", "crashed"})
             => events' = Append(events, "apply")]_vars

C17_Witness ==
    /\ RemovedDuringLastImpaired /\ last.cmd_rc = "ok"
    /\ last.sleep = SecTicks(CHECK_INTERVAL)
    /\ pc = "sleeping" /\ fn = "impair" /\ ~observed
    /\ events = <<"query", "apply">> /\ netem

\* C18: in a Healthy iteration next_transition is strictly later than now,
\* so the sleep is never the poll-interval fallback but always the distance
\* to next_transition plus one second.
C18_HealthyFallbackUnreachable ==
    (mode = "main" /\ pc = "sleeping" /\ fn = "heal") =>
        /\ InWindow(now)
        /\ next_boundary = WindowClosingOfDay(now)
        /\ next_boundary > now
        /\ delta = next_boundary - now
        /\ sleep_duration = delta + SecTicks(1)

C18_Witness ==
    /\ pc = "sleeping" /\ fn = "heal"
    /\ TimeOfDay(now) = At(HEALTHY_START_HOUR, 59, 59, Res - 1)
    /\ next_boundary - now = 1
    /\ sleep_duration = 1 + SecTicks(1)

\* C19: every computed sleep is positive: in (0, poll interval] in an
\* Impaired iteration, also one tick before the window opens and exactly at
\* its closing, and in (1 s, window length + 1 s] in a Healthy one.
C19_SleepStrictlyPositive ==
    (mode = "main" /\ pc = "sleeping") =>
        /\ sleep_duration > 0
        /\ fn = "impair" =>
              /\ sleep_duration <= SecTicks(CHECK_INTERVAL)
              /\ TimeOfDay(now) = WindowOpens - 1 => sleep_duration = 1
              /\ TimeOfDay(now) = WindowCloses =>
                    sleep_duration = SecTicks(CHECK_INTERVAL)
        /\ fn = "heal" =>
              /\ sleep_duration > SecTicks(1)
              /\ sleep_duration <= (WindowCloses - WindowOpens) + SecTicks(1)

C19_Witness ==
    /\ pc = "sleeping" /\ fn = "impair"
    /\ TimeOfDay(now) = WindowOpens - 1 /\ sleep_duration = 1

\* C20: an iteration launches one query and after it at most one command;
\* a remove only when now is inside the window and the probe returned true,
\* an apply only when now is outside it and the probe returned false.
C20_OneProbeThenMatchingCommand ==
    mode = "main" =>
        /\ events \in {<< >>, <<"query">>, <<"query", "apply">>,
                        <<"query", "remove">>}
        /\ (pc \in {"act", "returned", "sleeping"}) => Count(events, "query") = 1
        /\ Count(events, "remove") = 1 => (InWindow(now) /\ observed)
        /\ Count(events, "apply") = 1 => (~InWindow(now) /\ ~observed)
        /\ last.fn # None =>
              /\ Count(last.events, "query") = 1 /\ Len(last.events) <= 2
              /\ Count(last.events, "remove") = 1 =>
                    (InWindow(last.now) /\ last.observed)
              /\ Count(last.events, "apply") = 1 =>
                    (~InWindow(last.now) /\ ~last.observed)

C20_Witness ==
    /\ mode = "main" /\ pc = "sleeping" /\ fn = "impair"
    /\ events = <<"query", "apply">>
    /\ last.events = <<"query", "remove">> /\ last.observed

====
